---- MODULE Spec2Model ----
(***************************************************************************)
(* Model of the sudo LDAP back end orchestration in                        *)
(* src/providers/ldap/sdap_sudo.c: provider initialisation                 *)
(* (sdap_sudo_init), the host information completion callback              *)
(* (sdap_sudo_get_hostinfo_done), the request handler (sdap_sudo_handler), *)
(* the request completion callback (sdap_sudo_reply) and the finalizer     *)
(* (sdap_sudo_shutdown).  Everything runs on one tevent loop, so every     *)
(* function body is one atomic action.  The collaborators the file calls   *)
(* (ldap_get_sudo_options, sdap_sudo_get_hostinfo_send/recv,               *)
(* sdap_sudo_ptask_setup, sdap_sudo_*_refresh_send/recv, be_is_offline)    *)
(* are inputs chosen nondeterministically from the sets below.             *)
(***************************************************************************)
EXTENDS Integers, Sequences, FiniteSets, TLC

\* ---------------------------------------------------------------- bounds
\* Number of be_req requests the host hands to sdap_sudo_handler.
MaxReq == 2

ReqIds == 1..MaxReq

\* ------------------------------------------------- program constants
EOK == "EOK"
ENOMEM == "ENOMEM"
EINVAL == "EINVAL"
ENOENT == "ENOENT"
EAGAIN == "EAGAIN"
EIO == "EIO"
ERR_INTERNAL == "ERR_INTERNAL"

DP_ERR_OK == "DP_ERR_OK"
DP_ERR_OFFLINE == "DP_ERR_OFFLINE"
DP_ERR_FATAL == "DP_ERR_FATAL"

BE_REQ_SUDO_FULL == "BE_REQ_SUDO_FULL"
BE_REQ_SUDO_RULES == "BE_REQ_SUDO_RULES"
\* any request type the two switch statements do not name
BE_REQ_OTHER == "BE_REQ_OTHER"

NULL == "NULL"

\* sudo_req->type values a be_req may carry
ReqTypes == {BE_REQ_SUDO_FULL, BE_REQ_SUDO_RULES, BE_REQ_OTHER}

\* error codes ldap_get_sudo_options may return
OptionsRets == {EOK, EIO}
\* error codes sdap_sudo_ptask_setup may return
PtaskRets == {EOK, ENOMEM}
\* error codes sdap_sudo_get_hostinfo_recv may return
HostinfoRets == {EOK, EIO}
\* host names / addresses sdap_sudo_get_hostinfo_recv may hand out on success
HostnameValues == {"h1"}
IpAddrValues == {"ip1"}
\* what sdap_sudo_full_refresh_recv / sdap_sudo_rules_refresh_recv may report
RecvRets == {EOK, EIO}
\* the dp_error a refresh reports with return value ret: DP_ERR_OK with
\* success, DP_ERR_OFFLINE or DP_ERR_FATAL with an error
RecvDpErrors(ret) ==
    IF ret = EOK THEN {DP_ERR_OK} ELSE {DP_ERR_OFFLINE, DP_ERR_FATAL}

\* strerror(3) on the codes the file passes to it
strerror(ret) ==
    CASE ret = EOK -> "Success"
      [] ret = ENOENT -> "No such file or directory"
      [] ret = EIO -> "Input/output error"
      [] ret = ENOMEM -> "Cannot allocate memory"
      [] ret = EINVAL -> "Invalid argument"
      [] ret = EAGAIN -> "Resource temporarily unavailable"
      [] OTHER -> "Unknown error"

\* the three sudo options ldap_get_sudo_options stores into the context
SudoOptions ==
    { [use_host_filter |-> b, include_regexp |-> FALSE, include_netgroups |-> TRUE]
        : b \in BOOLEAN }

\* what sdap_sudo_get_hostinfo_recv stores in its out parameters: on success the
\* fetched lists (which may both be empty), on failure nothing (the locals of
\* sdap_sudo_get_hostinfo_done stay NULL)
HostinfoValues(ret) ==
    IF ret = EOK
    THEN { [hostnames |-> h, ip_addr |-> a] :
             h \in HostnameValues, a \in IpAddrValues }
         \cup { [hostnames |-> NULL, ip_addr |-> NULL] }
    ELSE { [hostnames |-> NULL, ip_addr |-> NULL] }

\* ------------------------------------------------------------------ state
VARIABLES
    sudo_ctx,       \* struct sdap_sudo_ctx, and whether its memory is live
    ops,            \* *ops, the handler table handed to the host
    pvt_data,       \* *pvt_data, the opaque provider state handed to the host
    init_call,      \* what the one call of sdap_sudo_init saw and returned
    hostinfo,       \* the tevent_req of sdap_sudo_get_hostinfo_send
    ptask_calls,    \* the calls of sdap_sudo_ptask_setup, in order
    offline,        \* what be_is_offline(be_ctx) reports
    be_req,         \* the requests handed to sdap_sudo_handler
    shutdown_done   \* the sdap_handler_done calls of sdap_sudo_shutdown

vars == <<sudo_ctx, ops, pvt_data, init_call, hostinfo, ptask_calls, offline,
          be_req, shutdown_done>>

\* struct sdap_sudo_ctx before talloc_zero has been called
NoCtx ==
    [mem |-> "none", full_refresh_done |-> FALSE, use_host_filter |-> FALSE,
     include_regexp |-> FALSE, include_netgroups |-> FALSE,
     hostnames |-> NULL, ip_addr |-> NULL]

\* talloc_zero(be_ctx, struct sdap_sudo_ctx): every field zero
ZeroCtx == [NoCtx EXCEPT !.mem = "live"]

\* one call of sdap_sudo_ptask_setup(be, sudo_ctx): who called, what it
\* returned, and the context fields it was handed
PtaskCall(from, ret, ctx) ==
    [from |-> from, ret |-> ret, use_host_filter |-> ctx.use_host_filter,
     hostnames |-> ctx.hostnames, ip_addr |-> ctx.ip_addr]

\* the state of a tevent_req that was pending after the calls made on it
\* (calls that are not made on the request leave it as it is)
ReqState(calls) ==
    IF \E i \in DOMAIN calls : calls[i] = "talloc_zfree" THEN "freed" ELSE "pending"

\* the calls sdap_sudo_get_hostinfo_done makes on its request, in order
sdap_sudo_get_hostinfo_done_calls ==
    << "sdap_sudo_get_hostinfo_recv", "talloc_zfree" >>

\* what sdap_sudo_get_hostinfo_done holds in its locals hostnames and ip_addr
\* before sdap_sudo_get_hostinfo_recv has filled them
NoInfo == [hostnames |-> NULL, ip_addr |-> NULL]

NoHostinfo == [req |-> "none", callback |-> FALSE, ret |-> "none", info |-> NoInfo, calls |-> <<>>]

\* the context after ldap_get_sudo_options has stored the options opts
LoadedCtx(opts) ==
    [ZeroCtx EXCEPT !.use_host_filter = opts.use_host_filter,
                    !.include_regexp = opts.include_regexp,
                    !.include_netgroups = opts.include_netgroups]

\* sdap_sudo_init, talloc_zero failed: return ENOMEM, nothing written
InitNoMemory ==
    [ret |-> ENOMEM, ctx |-> NoCtx, ops |-> "unset", pvt_data |-> "unset",
     hostinfo |-> NoHostinfo, ptask_calls |-> <<>>]

\* sdap_sudo_init, ldap_get_sudo_options failed: goto done, which frees the
\* context; *ops and *pvt_data were set before and stay set
InitOptionsFailed(opts_ret) ==
    [ret |-> opts_ret, ctx |-> [ZeroCtx EXCEPT !.mem = "freed"],
     ops |-> "sdap_sudo_ops", pvt_data |-> "sudo_ctx",
     hostinfo |-> NoHostinfo, ptask_calls |-> <<>>]

\* sdap_sudo_init, req == NULL branch entered with context c: the periodic task
\* is set up at once, its result only logged
InitHostinfoNotSent(c, ptask_ret) ==
    [ret |-> EOK, ctx |-> c, ops |-> "sdap_sudo_ops", pvt_data |-> "sudo_ctx",
     hostinfo |-> [req |-> NULL, callback |-> FALSE, ret |-> "none", info |-> NoInfo, calls |-> <<>>],
     ptask_calls |-> << PtaskCall("sdap_sudo_init", ptask_ret, c) >>]

\* sdap_sudo_init, else branch: only the callback is set on the request
InitHostinfoSent(c) ==
    [ret |-> EOK, ctx |-> c, ops |-> "sdap_sudo_ops", pvt_data |-> "sudo_ctx",
     hostinfo |-> [req |-> "pending", callback |-> TRUE, ret |-> "none", info |-> NoInfo, calls |-> <<>>],
     ptask_calls |-> <<>>]

\* mutant: the periodic task is also set up when the request was sent
sdap_sudo_init_result_arm_always(alloc_ok, opts_ret, opts, send_ok, ptask_ret) ==
    IF ~alloc_ok THEN InitNoMemory
    ELSE IF opts_ret # EOK THEN InitOptionsFailed(opts_ret)
    ELSE IF ~send_ok
    THEN InitHostinfoNotSent([LoadedCtx(opts) EXCEPT !.use_host_filter = FALSE],
                             ptask_ret)
    ELSE [InitHostinfoSent(LoadedCtx(opts)) EXCEPT !.ptask_calls =
             << PtaskCall("sdap_sudo_init", ptask_ret, LoadedCtx(opts)) >>]

\* mutant: the goto done after a failed ldap_get_sudo_options is missing
sdap_sudo_init_result_no_goto(alloc_ok, opts_ret, opts, send_ok, ptask_ret) ==
    IF ~alloc_ok THEN InitNoMemory
    ELSE IF ~send_ok
    THEN InitHostinfoNotSent([LoadedCtx(opts) EXCEPT !.use_host_filter = FALSE],
                             ptask_ret)
    ELSE InitHostinfoSent(LoadedCtx(opts))

\* mutant: use_host_filter is not forced to false when the request is NULL
sdap_sudo_init_result_keep_filter(alloc_ok, opts_ret, opts, send_ok, ptask_ret) ==
    IF ~alloc_ok THEN InitNoMemory
    ELSE IF opts_ret # EOK THEN InitOptionsFailed(opts_ret)
    ELSE IF ~send_ok THEN InitHostinfoNotSent(LoadedCtx(opts), ptask_ret)
    ELSE InitHostinfoSent(LoadedCtx(opts))

\* mutant: a failed sdap_sudo_ptask_setup makes sdap_sudo_init fail
sdap_sudo_init_result_ptask_fatal(alloc_ok, opts_ret, opts, send_ok, ptask_ret) ==
    IF ~alloc_ok THEN InitNoMemory
    ELSE IF opts_ret # EOK THEN InitOptionsFailed(opts_ret)
    ELSE IF ~send_ok
    THEN LET res == InitHostinfoNotSent(
                        [LoadedCtx(opts) EXCEPT !.use_host_filter = FALSE], ptask_ret)
         IN IF ptask_ret = EOK THEN res
            ELSE [res EXCEPT !.ret = ptask_ret, !.ctx.mem = "freed"]
    ELSE InitHostinfoSent(LoadedCtx(opts))

\* sdap_sudo_init as a function of what its collaborators return:
\*   alloc_ok  - talloc_zero returned a context
\*   opts_ret  - return value of ldap_get_sudo_options, opts the options stored
\*   send_ok   - sdap_sudo_get_hostinfo_send returned a request
\*   ptask_ret - return value of sdap_sudo_ptask_setup
sdap_sudo_init_result(alloc_ok, opts_ret, opts, send_ok, ptask_ret) ==
    IF ~alloc_ok THEN InitNoMemory
    ELSE IF opts_ret # EOK THEN InitOptionsFailed(opts_ret)
    ELSE IF ~send_ok
    THEN InitHostinfoNotSent([LoadedCtx(opts) EXCEPT !.use_host_filter = FALSE],
                             ptask_ret)
    ELSE InitHostinfoSent(LoadedCtx(opts))

\* mutant: the periodic task is set up before the context is updated
sdap_sudo_get_hostinfo_done_result_arm_first(ctx, ret, info, ptask_ret) ==
    LET c1 == IF ret # EOK THEN [ctx EXCEPT !.use_host_filter = FALSE] ELSE ctx
        c2 == [c1 EXCEPT !.hostnames = info.hostnames, !.ip_addr = info.ip_addr]
    IN [ctx |-> c2,
        hostinfo |-> [req |-> ReqState(sdap_sudo_get_hostinfo_done_calls),
                      callback |-> TRUE, ret |-> ret, info |-> info,
                      calls |-> sdap_sudo_get_hostinfo_done_calls],
        ptask_call |-> PtaskCall("sdap_sudo_get_hostinfo_done", ptask_ret, ctx)]

\* mutant: a failed recv does not switch the host filter off
sdap_sudo_get_hostinfo_done_result_keep_filter(ctx, ret, info, ptask_ret) ==
    LET c2 == [ctx EXCEPT !.hostnames = info.hostnames, !.ip_addr = info.ip_addr]
    IN [ctx |-> c2,
        hostinfo |-> [req |-> ReqState(sdap_sudo_get_hostinfo_done_calls),
                      callback |-> TRUE, ret |-> ret, info |-> info,
                      calls |-> sdap_sudo_get_hostinfo_done_calls],
        ptask_call |-> PtaskCall("sdap_sudo_get_hostinfo_done", ptask_ret, c2)]

\* mutant: the fetched lists are freed instead of moved into the context
sdap_sudo_get_hostinfo_done_result_no_move(ctx, ret, info, ptask_ret) ==
    LET c1 == IF ret # EOK THEN [ctx EXCEPT !.use_host_filter = FALSE] ELSE ctx
        c2 == [c1 EXCEPT !.hostnames = NULL, !.ip_addr = NULL]
    IN [ctx |-> c2,
        hostinfo |-> [req |-> ReqState(sdap_sudo_get_hostinfo_done_calls),
                      callback |-> TRUE, ret |-> ret, info |-> info,
                      calls |-> sdap_sudo_get_hostinfo_done_calls],
        ptask_call |-> PtaskCall("sdap_sudo_get_hostinfo_done", ptask_ret, c2)]

\* mutant: the request is not freed, so that its callback can run again
sdap_sudo_get_hostinfo_done_result_no_free(ctx, ret, info, ptask_ret) ==
    LET c1 == IF ret # EOK THEN [ctx EXCEPT !.use_host_filter = FALSE] ELSE ctx
        c2 == [c1 EXCEPT !.hostnames = info.hostnames, !.ip_addr = info.ip_addr]
    IN [ctx |-> c2,
        hostinfo |-> [req |-> "pending", callback |-> TRUE, ret |-> ret, info |-> info,
                      calls |-> << "sdap_sudo_get_hostinfo_recv" >>],
        ptask_call |-> PtaskCall("sdap_sudo_get_hostinfo_done", ptask_ret, c2)]

\* sdap_sudo_get_hostinfo_done as a function of the context it is handed:
\*   ret       - return value of sdap_sudo_get_hostinfo_recv
\*   info      - the hostnames / ip_addr lists recv handed out
\*   ptask_ret - return value of sdap_sudo_ptask_setup
sdap_sudo_get_hostinfo_done_result(ctx, ret, info, ptask_ret) ==
    LET c1 == IF ret # EOK THEN [ctx EXCEPT !.use_host_filter = FALSE] ELSE ctx
        c2 == [c1 EXCEPT !.hostnames = info.hostnames, !.ip_addr = info.ip_addr]
    IN [ctx |-> c2,
        hostinfo |-> [req |-> ReqState(sdap_sudo_get_hostinfo_done_calls),
                      callback |-> TRUE, ret |-> ret, info |-> info,
                      calls |-> sdap_sudo_get_hostinfo_done_calls],
        ptask_call |-> PtaskCall("sdap_sudo_get_hostinfo_done", ptask_ret, c2)]

\* one call of sdap_handler_done(be_req, dp_error, ret, msg); req is the state
\* of the request's tevent_req at the moment of the call
Done(dp_error, ret, msg, req) ==
    [dp_error |-> dp_error, ret |-> ret, msg |-> msg, req |-> req]

\* what a refresh operation was handed when it was sent: the context fields
\* it reads, and whether the host information callback had run by then
NoSendCtx == [use_host_filter |-> FALSE, hostinfo_ret |-> "none"]

SendCtx == [use_host_filter |-> sudo_ctx.use_host_filter,
            hostinfo_ret |-> hostinfo.ret]

NoRecv == [ret |-> "none", dp_error |-> "none", deleted |-> FALSE]

\* a be_req sdap_sudo_handler has not seen yet
IdleReq ==
    [type |-> "none", was_offline |-> FALSE, send |-> "none",
     send_ctx |-> NoSendCtx, req |-> "none", callback |-> FALSE,
     recv |-> NoRecv, calls |-> <<>>, done |-> <<>>]

\* sdap_sudo_handler, offline branch: reply and return
HandlerOffline ==
    [send |-> "none", req |-> "none", callback |-> FALSE,
     done |-> << Done(DP_ERR_OFFLINE, EAGAIN, "Offline", "none") >>]

\* sdap_sudo_handler, default case of the switch: ret = EINVAL; goto fail
HandlerInvalidType ==
    [send |-> "none", req |-> "none", callback |-> FALSE,
     done |-> << Done(DP_ERR_FATAL, EINVAL, NULL, "none") >>]

\* the send function the switch of sdap_sudo_handler picks for a request type
SendFunction(type) ==
    IF type = BE_REQ_SUDO_FULL THEN "sdap_sudo_full_refresh_send"
    ELSE "sdap_sudo_rules_refresh_send"

\* sdap_sudo_handler, req == NULL after the send: ret = ENOMEM; goto fail
HandlerSendFailed(type) ==
    [send |-> SendFunction(type), req |-> NULL, callback |-> FALSE,
     done |-> << Done(DP_ERR_FATAL, ENOMEM, NULL, NULL) >>]

\* sdap_sudo_handler, request sent: set sdap_sudo_reply as callback and return
HandlerSent(type) ==
    [send |-> SendFunction(type), req |-> "pending", callback |-> TRUE,
     done |-> <<>>]

\* mutant: the return after the offline reply is missing
sdap_sudo_handler_result_no_return(is_offline, type, send_ok) ==
    LET rest == IF type \notin {BE_REQ_SUDO_FULL, BE_REQ_SUDO_RULES}
                THEN HandlerInvalidType
                ELSE IF ~send_ok THEN HandlerSendFailed(type) ELSE HandlerSent(type)
    IN IF is_offline
       THEN [rest EXCEPT !.done = HandlerOffline.done \o @]
       ELSE rest

\* mutant: be_is_offline is not consulted
sdap_sudo_handler_result_no_offline_check(is_offline, type, send_ok) ==
    IF type \notin {BE_REQ_SUDO_FULL, BE_REQ_SUDO_RULES} THEN HandlerInvalidType
    ELSE IF ~send_ok THEN HandlerSendFailed(type) ELSE HandlerSent(type)

\* mutant: the default case falls into the rules refresh
sdap_sudo_handler_result_no_default(is_offline, type, send_ok) ==
    IF is_offline THEN HandlerOffline
    ELSE IF ~send_ok THEN HandlerSendFailed(type) ELSE HandlerSent(type)

\* mutant: the callback is set before req is tested against NULL
sdap_sudo_handler_result_callback_first(is_offline, type, send_ok) ==
    IF is_offline THEN HandlerOffline
    ELSE IF type \notin {BE_REQ_SUDO_FULL, BE_REQ_SUDO_RULES} THEN HandlerInvalidType
    ELSE IF ~send_ok THEN [HandlerSendFailed(type) EXCEPT !.callback = TRUE]
    ELSE HandlerSent(type)

\* mutant: a failed send returns without going to fail
sdap_sudo_handler_result_fail_returns(is_offline, type, send_ok) ==
    IF is_offline THEN HandlerOffline
    ELSE IF type \notin {BE_REQ_SUDO_FULL, BE_REQ_SUDO_RULES} THEN HandlerInvalidType
    ELSE IF ~send_ok THEN [HandlerSendFailed(type) EXCEPT !.done = <<>>]
    ELSE HandlerSent(type)

\* sdap_sudo_handler as a function of
\*   is_offline - be_is_offline(be_ctx)
\*   type       - sudo_req->type
\*   send_ok    - the *_refresh_send call returned a request
\* giving the send function called, the tevent_req, whether sdap_sudo_reply
\* was registered on it, and the sdap_handler_done calls made before returning
sdap_sudo_handler_result(is_offline, type, send_ok) ==
    IF is_offline THEN HandlerOffline
    ELSE IF type \notin {BE_REQ_SUDO_FULL, BE_REQ_SUDO_RULES} THEN HandlerInvalidType
    ELSE IF ~send_ok THEN HandlerSendFailed(type) ELSE HandlerSent(type)

\* mutant: the deleted flag of a rules refresh is ignored
sdap_sudo_reply_result_no_enoent(type, recv) ==
    CASE type \in {BE_REQ_SUDO_FULL, BE_REQ_SUDO_RULES} ->
           [dp_error |-> recv.dp_error, ret |-> recv.ret]
      [] OTHER ->
           [dp_error |-> DP_ERR_FATAL, ret |-> ERR_INTERNAL]

\* mutant: the deleted flag is looked at for a full refresh as well
sdap_sudo_reply_result_enoent_for_full(type, recv) ==
    CASE type \in {BE_REQ_SUDO_FULL, BE_REQ_SUDO_RULES} ->
           [dp_error |-> recv.dp_error,
            ret |-> IF recv.ret = EOK /\ recv.deleted = TRUE
                    THEN ENOENT ELSE recv.ret]
      [] OTHER ->
           [dp_error |-> DP_ERR_FATAL, ret |-> ERR_INTERNAL]

\* the (dp_error, ret) pair sdap_sudo_reply computes from the request type
\* and from what the matching *_refresh_recv reports
sdap_sudo_reply_result(type, recv) ==
    CASE type = BE_REQ_SUDO_FULL ->
           [dp_error |-> recv.dp_error, ret |-> recv.ret]
      [] type = BE_REQ_SUDO_RULES ->
           [dp_error |-> recv.dp_error,
            ret |-> IF recv.ret = EOK /\ recv.deleted = TRUE
                    THEN ENOENT ELSE recv.ret]
      [] OTHER ->
           [dp_error |-> DP_ERR_FATAL, ret |-> ERR_INTERNAL]

\* mutant: the request is freed before its result is received
sdap_sudo_reply_calls_free_first(type) ==
    CASE type = BE_REQ_SUDO_FULL ->
           << "talloc_zfree", "sdap_sudo_full_refresh_recv", "sdap_handler_done" >>
      [] type = BE_REQ_SUDO_RULES ->
           << "talloc_zfree", "sdap_sudo_rules_refresh_recv", "sdap_handler_done" >>
      [] OTHER ->
           << "talloc_zfree", "sdap_handler_done" >>

\* the calls sdap_sudo_reply makes on the request and on the be_req, in order
sdap_sudo_reply_calls(type) ==
    CASE type = BE_REQ_SUDO_FULL ->
           << "sdap_sudo_full_refresh_recv", "talloc_zfree", "sdap_handler_done" >>
      [] type = BE_REQ_SUDO_RULES ->
           << "sdap_sudo_rules_refresh_recv", "talloc_zfree", "sdap_handler_done" >>
      [] OTHER ->
           << "talloc_zfree", "sdap_handler_done" >>

\* the sdap_handler_done calls among the first n of calls, each with the
\* state the request is in when it is made
RECURSIVE DoneCalls(_, _, _)
DoneCalls(calls, n, res) ==
    IF n = 0 THEN <<>>
    ELSE IF calls[n] = "sdap_handler_done"
    THEN Append(DoneCalls(calls, n - 1, res),
                Done(res.dp_error, res.ret, strerror(res.ret),
                     ReqState(SubSeq(calls, 1, n - 1))))
    ELSE DoneCalls(calls, n - 1, res)

\* the context after a refresh of the given type has completed with recv: a
\* full refresh that succeeded has set full_refresh_done, a collaborator's
\* write that sdap_sudo.c itself never makes
RefreshSideEffect(ctx, type, recv) ==
    IF type = BE_REQ_SUDO_FULL /\ recv.ret = EOK
    THEN [ctx EXCEPT !.full_refresh_done = TRUE]
    ELSE ctx

\* what a *_refresh_recv call may report
RecvValues ==
    UNION { { [ret |-> e, dp_error |-> d, deleted |-> x] :
                d \in RecvDpErrors(e), x \in BOOLEAN } : e \in RecvRets }

NotCalled ==
    [called |-> FALSE, alloc_ok |-> FALSE, opts_ret |-> "none",
     opts |-> [use_host_filter |-> FALSE, include_regexp |-> FALSE,
               include_netgroups |-> FALSE],
     ret |-> "none"]

\* ---------------------------------------------------------------- actions
Init ==
    /\ sudo_ctx = NoCtx
    /\ ops = "unset"
    /\ pvt_data = "unset"
    /\ init_call = NotCalled
    /\ hostinfo = NoHostinfo
    /\ ptask_calls = <<>>
    /\ offline \in BOOLEAN
    /\ be_req = [r \in ReqIds |-> IdleReq]
    /\ shutdown_done = <<>>

\* the host calls sdap_sudo_init once, at provider start-up
sdap_sudo_init ==
    /\ ~init_call.called
    /\ \E alloc_ok \in BOOLEAN, opts_ret \in OptionsRets, opts \in SudoOptions,
          send_ok \in BOOLEAN, ptask_ret \in PtaskRets :
         LET res == sdap_sudo_init_result(alloc_ok, opts_ret, opts, send_ok, ptask_ret)
         IN /\ sudo_ctx' = res.ctx
            /\ ops' = res.ops
            /\ pvt_data' = res.pvt_data
            /\ hostinfo' = res.hostinfo
            /\ ptask_calls' = ptask_calls \o res.ptask_calls
            /\ init_call' =
                 [called |-> TRUE, alloc_ok |-> alloc_ok,
                  opts_ret |-> IF alloc_ok THEN opts_ret ELSE "none",
                  opts |-> IF alloc_ok /\ opts_ret = EOK THEN opts ELSE NotCalled.opts,
                  ret |-> res.ret]
    /\ UNCHANGED <<offline, be_req, shutdown_done>>

\* the event loop completes the host information request and runs its callback
sdap_sudo_get_hostinfo_done ==
    /\ hostinfo.req = "pending"
    /\ hostinfo.callback
    /\ \E ret \in HostinfoRets, ptask_ret \in PtaskRets :
       \E info \in HostinfoValues(ret) :
         LET res == sdap_sudo_get_hostinfo_done_result(sudo_ctx, ret, info, ptask_ret)
         IN /\ sudo_ctx' = res.ctx
            /\ hostinfo' = res.hostinfo
            /\ ptask_calls' = Append(ptask_calls, res.ptask_call)
    /\ UNCHANGED <<ops, pvt_data, init_call, offline, be_req, shutdown_done>>

\* the provider is usable by the host: sdap_sudo_init returned EOK and
\* sdap_sudo_shutdown has not been called
Running == init_call.ret = EOK /\ shutdown_done = <<>>

\* the host hands be_req r to sdap_sudo_handler (requests arrive in id order)
sdap_sudo_handler(r) ==
    /\ Running
    /\ be_req[r].type = "none"
    /\ \A q \in ReqIds : q < r => be_req[q].type # "none"
    /\ \E type \in ReqTypes, send_ok \in BOOLEAN :
         LET res == sdap_sudo_handler_result(offline, type, send_ok)
         IN be_req' = [be_req EXCEPT ![r] =
                 [type |-> type, was_offline |-> offline, send |-> res.send,
                  send_ctx |-> IF res.send = "none" THEN NoSendCtx ELSE SendCtx,
                  req |-> res.req, callback |-> res.callback,
                  recv |-> NoRecv, calls |-> <<>>, done |-> res.done]]
    /\ UNCHANGED <<sudo_ctx, ops, pvt_data, init_call, hostinfo, ptask_calls,
                   offline, shutdown_done>>

\* mutant: sdap_sudo_reply takes the request type from the request handled
\* last instead of from its own callback data
sdap_sudo_reply_shared_req(r) ==
    /\ be_req[r].req = "pending"
    /\ be_req[r].callback
    /\ \E recv \in RecvValues :
         LET last == CHOOSE q \in ReqIds :
                         /\ be_req[q].type # "none"
                         /\ \A p \in ReqIds : p > q => be_req[p].type = "none"
             res == sdap_sudo_reply_result(be_req[last].type, recv)
             calls == sdap_sudo_reply_calls(be_req[r].type)
         IN /\ be_req' = [be_req EXCEPT ![r] =
                 [@ EXCEPT !.recv = recv, !.req = ReqState(calls),
                           !.calls = calls,
                           !.done = @ \o DoneCalls(calls, Len(calls), res)]]
            /\ sudo_ctx' = RefreshSideEffect(sudo_ctx, be_req[r].type, recv)
    /\ UNCHANGED <<ops, pvt_data, init_call, hostinfo, ptask_calls,
                   offline, shutdown_done>>

\* the event loop completes the refresh request of be_req r, which has had its
\* side effect on the context by then, and runs sdap_sudo_reply on it
sdap_sudo_reply(r) ==
    /\ be_req[r].req = "pending"
    /\ be_req[r].callback
    /\ \E recv \in RecvValues :
         LET res == sdap_sudo_reply_result(be_req[r].type, recv)
             calls == sdap_sudo_reply_calls(be_req[r].type)
         IN /\ be_req' = [be_req EXCEPT ![r] =
                 [@ EXCEPT !.recv = recv, !.req = ReqState(calls),
                           !.calls = calls,
                           !.done = @ \o DoneCalls(calls, Len(calls), res)]]
            /\ sudo_ctx' = RefreshSideEffect(sudo_ctx, be_req[r].type, recv)
    /\ UNCHANGED <<ops, pvt_data, init_call, hostinfo, ptask_calls,
                   offline, shutdown_done>>

\* mutant: sdap_sudo_shutdown cancels the refresh requests still pending
sdap_sudo_shutdown_cancels ==
    /\ Running
    /\ shutdown_done' = Append(shutdown_done, Done(DP_ERR_OK, EOK, NULL, "none"))
    /\ be_req' = [r \in ReqIds |->
                    IF be_req[r].req = "pending"
                    THEN [be_req[r] EXCEPT !.req = "freed"]
                    ELSE be_req[r]]
    /\ UNCHANGED <<sudo_ctx, ops, pvt_data, init_call, hostinfo, ptask_calls,
                   offline>>

\* the host finalizes the provider: sdap_sudo_shutdown
sdap_sudo_shutdown ==
    /\ Running
    /\ shutdown_done' = Append(shutdown_done, Done(DP_ERR_OK, EOK, NULL, "none"))
    /\ UNCHANGED <<sudo_ctx, ops, pvt_data, init_call, hostinfo, ptask_calls,
                   offline, be_req>>

\* the back end goes offline or comes back online (be_is_offline changes)
SetOffline ==
    /\ offline' = ~offline
    /\ UNCHANGED <<sudo_ctx, ops, pvt_data, init_call, hostinfo, ptask_calls,
                   be_req, shutdown_done>>

Next ==
    \/ sdap_sudo_init
    \/ sdap_sudo_get_hostinfo_done
    \/ \E r \in ReqIds : sdap_sudo_handler(r)
    \/ \E r \in ReqIds : sdap_sudo_reply(r)
    \/ sdap_sudo_shutdown
    \/ SetOffline

Spec == Init /\ [][Next]_vars

\* tevent runs the callback of every request that completes; the refresh
\* operations are taken to complete as long as the provider is not shut down
FairSpec ==
    Spec /\ \A r \in ReqIds : WF_vars(sdap_sudo_reply(r) /\ shutdown_done = <<>>)

\* --------------------------------------------------------------- claims

\* sdap_sudo_handler has been called on be_req r
Received(r) == be_req[r].type # "none"
\* a refresh request was sent for be_req r and got its callback
Dispatched(r) == be_req[r].callback
\* the refresh request of be_req r has completed and its callback has run
Completed(r) == be_req[r].req = "freed"
\* the number of sdap_handler_done calls made for be_req r
Replies(r) == Len(be_req[r].done)

\* C1: every request handed to sdap_sudo_handler gets sdap_handler_done called
\* exactly once: never twice; at once on the offline, invalid type and send
\* failure paths; not before completion on the dispatched path, and once the
\* refresh completes; hence eventually once unless the provider is shut down.
C1_ReplyExactlyOnce ==
    /\ [](\A r \in ReqIds :
            /\ Replies(r) <= 1
            /\ (Received(r) /\ ~Dispatched(r)) => Replies(r) = 1
            /\ (Dispatched(r) /\ ~Completed(r)) => Replies(r) = 0
            /\ Completed(r) => Replies(r) = 1)
    /\ \A r \in ReqIds :
            Received(r) ~> (Replies(r) = 1 \/ shutdown_done # <<>>)

\* one request was answered on the offline path and another on completion of
\* its refresh, each with one reply
C1_Witness ==
    \E r1, r2 \in ReqIds :
        /\ be_req[r1].was_offline /\ Replies(r1) = 1
        /\ Completed(r2) /\ Replies(r2) = 1

\* C2: a request of any type handled while be_is_offline is true gets the one
\* reply (DP_ERR_OFFLINE, EAGAIN, "Offline"), and neither refresh is sent.
C2_OfflineShortCircuit ==
    \A r \in ReqIds :
        (Received(r) /\ be_req[r].was_offline) =>
            /\ be_req[r].done = << Done(DP_ERR_OFFLINE, EAGAIN, "Offline", "none") >>
            /\ be_req[r].send = "none"
            /\ be_req[r].req = "none"
            /\ ~be_req[r].callback

C2_Witness ==
    \E r \in ReqIds :
        /\ be_req[r].was_offline
        /\ be_req[r].type = BE_REQ_SUDO_FULL
        /\ Replies(r) = 1

\* C3: a completed rules refresh that reports EOK and deleted == true is
\* answered with ENOENT, under the dp_error the refresh reported: a dp_error
\* other than DP_ERR_FATAL is not turned into DP_ERR_FATAL.
C3_DeletedIsENOENT ==
    \A r \in ReqIds :
        ( /\ Completed(r)
          /\ be_req[r].type = BE_REQ_SUDO_RULES
          /\ be_req[r].recv.ret = EOK
          /\ be_req[r].recv.deleted ) =>
            /\ Replies(r) = 1
            /\ be_req[r].done[1].ret = ENOENT
            /\ be_req[r].done[1].dp_error = be_req[r].recv.dp_error
            /\ be_req[r].recv.dp_error # DP_ERR_FATAL
                   => be_req[r].done[1].dp_error # DP_ERR_FATAL

C3_Witness ==
    \E r \in ReqIds :
        /\ Completed(r)
        /\ be_req[r].type = BE_REQ_SUDO_RULES
        /\ be_req[r].recv.ret = EOK
        /\ be_req[r].recv.deleted
        /\ be_req[r].done[1].ret = ENOENT

\* the sdap_sudo_ptask_setup calls made by function from
PtaskCallsFrom(from) ==
    { i \in DOMAIN ptask_calls : ptask_calls[i].from = from }

\* ldap_get_sudo_options was called by sdap_sudo_init and returned EOK
OptionsLoaded == init_call.called /\ init_call.opts_ret = EOK

\* C4 as stated: whenever the options load succeeded, sdap_sudo_init has made
\* exactly one sdap_sudo_ptask_setup call by the time it has returned, whether
\* or not the host information request could be sent.
C4_ArmInInitAlways ==
    OptionsLoaded => Cardinality(PtaskCallsFrom("sdap_sudo_init")) = 1

\* C4 amended: when the options load succeeded, sdap_sudo_init makes exactly
\* one sdap_sudo_ptask_setup call if the host information request could not be
\* sent and none if it was sent; in the latter case no call is made at all
\* until the request has completed.
C4_ArmInInitOnlyWithoutFetch ==
    OptionsLoaded =>
        /\ init_call.ret = EOK
        /\ hostinfo.req = NULL =>
               Cardinality(PtaskCallsFrom("sdap_sudo_init")) = 1
        /\ hostinfo.req # NULL =>
               Cardinality(PtaskCallsFrom("sdap_sudo_init")) = 0
        /\ hostinfo.req = "pending" => ptask_calls = <<>>

C4_Witness ==
    /\ OptionsLoaded
    /\ hostinfo.req = "pending"
    /\ ptask_calls = <<>>
    /\ \E r \in ReqIds : Dispatched(r)

\* C5: once the host information callback has run, with success or failure,
\* it has made exactly one sdap_sudo_ptask_setup call, and that call was handed
\* the context as updated by the callback: use_host_filter switched off on
\* failure, hostnames and ip_addr replaced by what recv handed out.  Before
\* it has run it has made none.
C5_CallbackArmsOnceAfterUpdate ==
    /\ hostinfo.req # "freed" =>
           PtaskCallsFrom("sdap_sudo_get_hostinfo_done") = {}
    /\ hostinfo.req = "freed" =>
           /\ Cardinality(PtaskCallsFrom("sdap_sudo_get_hostinfo_done")) = 1
           /\ \A i \in PtaskCallsFrom("sdap_sudo_get_hostinfo_done") :
                /\ i = Len(ptask_calls)
                /\ ptask_calls[i].use_host_filter =
                       (hostinfo.ret = EOK /\ init_call.opts.use_host_filter)
                /\ ptask_calls[i].use_host_filter = sudo_ctx.use_host_filter
                /\ ptask_calls[i].hostnames = sudo_ctx.hostnames
                /\ ptask_calls[i].ip_addr = sudo_ctx.ip_addr
                /\ hostinfo.ret # EOK => ptask_calls[i].hostnames = NULL

C5_Witness ==
    /\ hostinfo.req = "freed"
    /\ hostinfo.ret # EOK
    /\ init_call.opts.use_host_filter
    /\ Cardinality(PtaskCallsFrom("sdap_sudo_get_hostinfo_done")) = 1

\* C6: once the host information request has completed with failure,
\* use_host_filter is false, whatever the configured option, and every refresh
\* sent since the completion was handed a context with use_host_filter false.
C6_FailedFetchDisablesFilter ==
    hostinfo.ret \notin {"none", EOK} =>
        /\ sudo_ctx.use_host_filter = FALSE
        /\ \A r \in ReqIds :
             (be_req[r].send # "none" /\ be_req[r].send_ctx.hostinfo_ret = hostinfo.ret)
                 => be_req[r].send_ctx.use_host_filter = FALSE

C6_Witness ==
    /\ hostinfo.ret \notin {"none", EOK}
    /\ init_call.opts.use_host_filter
    /\ \E r \in ReqIds :
         /\ Dispatched(r)
         /\ be_req[r].send_ctx.hostinfo_ret = hostinfo.ret

\* C7: if ldap_get_sudo_options fails, sdap_sudo_init returns its error, the
\* host information request is never sent and sdap_sudo_ptask_setup is never
\* called; if it succeeds, sdap_sudo_init returns EOK whether or not the
\* request could be sent, the periodic task could be set up, or the request
\* later completed with failure.
C7_OnlyOptionsFailureIsFatal ==
    /\ (init_call.called /\ init_call.opts_ret \notin {"none", EOK}) =>
           /\ init_call.ret = init_call.opts_ret
           /\ hostinfo = NoHostinfo
           /\ ptask_calls = <<>>
    /\ OptionsLoaded => init_call.ret = EOK
    /\ (init_call.called /\ init_call.ret # EOK) =>
           (~init_call.alloc_ok \/ init_call.opts_ret # EOK)

C7_Witness ==
    /\ init_call.called
    /\ init_call.opts_ret = EIO
    /\ init_call.ret = EIO
    /\ ptask_calls = <<>>

\* C8 as stated: an online request whose type is neither full nor rules is
\* answered (DP_ERR_FATAL, ERR_INTERNAL) and nothing is sent.
C8_InvalidTypeIsInternal ==
    \A r \in ReqIds :
        ( /\ Received(r)
          /\ ~be_req[r].was_offline
          /\ be_req[r].type \notin {BE_REQ_SUDO_FULL, BE_REQ_SUDO_RULES} ) =>
            /\ Replies(r) = 1
            /\ be_req[r].done[1].dp_error = DP_ERR_FATAL
            /\ be_req[r].done[1].ret = ERR_INTERNAL
            /\ be_req[r].send = "none"

\* C8 amended: an online request whose type is neither full nor rules is
\* answered (DP_ERR_FATAL, EINVAL) with no message, and nothing is sent.
C8_InvalidTypeIsEINVAL ==
    \A r \in ReqIds :
        ( /\ Received(r)
          /\ ~be_req[r].was_offline
          /\ be_req[r].type \notin {BE_REQ_SUDO_FULL, BE_REQ_SUDO_RULES} ) =>
            /\ be_req[r].done = << Done(DP_ERR_FATAL, EINVAL, NULL, "none") >>
            /\ be_req[r].send = "none"
            /\ be_req[r].req = "none"
            /\ ~be_req[r].callback

C8_Witness ==
    \E r \in ReqIds :
        /\ Received(r)
        /\ ~be_req[r].was_offline
        /\ be_req[r].type = BE_REQ_OTHER
        /\ Replies(r) = 1

\* the refresh send for be_req r returned NULL
SendFailed(r) == be_req[r].req = NULL

\* what sdap_sudo_handler leaves of be_req r agrees with its three outcomes
\* for an online full or rules request
HandledNormally(r) ==
    (~be_req[r].was_offline /\ be_req[r].type \in {BE_REQ_SUDO_FULL, BE_REQ_SUDO_RULES})
        => /\ be_req[r].send = SendFunction(be_req[r].type)
           /\ \/ SendFailed(r) /\ Replies(r) = 1
              \/ Dispatched(r) /\ ~Completed(r) /\ Replies(r) = 0
              \/ Dispatched(r) /\ Completed(r) /\ Replies(r) = 1

\* C9: when the refresh send returns NULL the request is answered
\* (DP_ERR_FATAL, ENOMEM) at once and gets no callback; the step leaves the
\* context, the host information request and the periodic task untouched; the
\* handler still accepts the next request, and requests handled after it are
\* sent and answered as usual.
C9_SendFailureIsENOMEM ==
    /\ [](\A r \in ReqIds :
            SendFailed(r) =>
              /\ be_req[r].done = << Done(DP_ERR_FATAL, ENOMEM, NULL, NULL) >>
              /\ ~be_req[r].callback
              /\ ~be_req[r].was_offline
              /\ \A q \in ReqIds : q > r =>
                   /\ (Running /\ q = r + 1 /\ ~Received(q))
                          => ENABLED sdap_sudo_handler(q)
                   /\ Received(q) => HandledNormally(q))
    /\ [][\A r \in ReqIds :
            (~SendFailed(r) /\ SendFailed(r)') =>
                UNCHANGED <<sudo_ctx, ops, pvt_data, init_call, hostinfo, ptask_calls>>]_vars

C9_Witness ==
    \E r, q \in ReqIds :
        /\ q > r
        /\ SendFailed(r)
        /\ be_req[r].done[1].ret = ENOMEM
        /\ Dispatched(q) /\ Completed(q) /\ Replies(q) = 1

\* C10: when the options load succeeded and the host information request
\* could not be sent, sdap_sudo_init has returned EOK with use_host_filter
\* false and no host names or addresses, it has made the only
\* sdap_sudo_ptask_setup call there will ever be, and the callback
\* sdap_sudo_get_hostinfo_done is not registered and cannot run.
C10_FetchNotStarted ==
    (OptionsLoaded /\ hostinfo.req = NULL) =>
        /\ init_call.ret = EOK
        /\ sudo_ctx.use_host_filter = FALSE
        /\ sudo_ctx.hostnames = NULL
        /\ sudo_ctx.ip_addr = NULL
        /\ Len(ptask_calls) = 1
        /\ ptask_calls[1].from = "sdap_sudo_init"
        /\ ptask_calls[1].use_host_filter = FALSE
        /\ ~hostinfo.callback
        /\ ~ENABLED sdap_sudo_get_hostinfo_done

C10_Witness ==
    /\ OptionsLoaded
    /\ hostinfo.req = NULL
    /\ init_call.opts.use_host_filter
    /\ \E r \in ReqIds : Completed(r)

\* the host information request completed successfully and handed out host
\* names, after an options load that enabled the host filter
FetchedHostnames ==
    /\ OptionsLoaded
    /\ init_call.opts.use_host_filter
    /\ hostinfo.req = "freed"
    /\ hostinfo.ret = EOK
    /\ hostinfo.info.hostnames # NULL

\* what C11 states of the context besides full_refresh_done: the filter is
\* on, the context holds the fetched lists, and the callback has called
\* sdap_sudo_ptask_setup, so the periodic task is set up if that call succeeded
FetchedContext ==
    /\ sudo_ctx.mem = "live"
    /\ sudo_ctx.use_host_filter = TRUE
    /\ sudo_ctx.hostnames = hostinfo.info.hostnames
    /\ sudo_ctx.ip_addr = hostinfo.info.ip_addr
    /\ ptask_calls # <<>>
    /\ ptask_calls[Len(ptask_calls)].from = "sdap_sudo_get_hostinfo_done"
    /\ ptask_calls[Len(ptask_calls)].hostnames = hostinfo.info.hostnames

\* a full refresh has completed successfully
FullRefreshCompleted ==
    \E r \in ReqIds :
        /\ Completed(r)
        /\ be_req[r].type = BE_REQ_SUDO_FULL
        /\ be_req[r].recv.ret = EOK

\* C11 as stated: after a successful fetch of host names with the filter
\* enabled, the context has use_host_filter true, the fetched host names and
\* addresses, full_refresh_done false, and sdap_sudo_ptask_setup was called.
C11_FetchedContextNoFullRefresh ==
    FetchedHostnames => (FetchedContext /\ sudo_ctx.full_refresh_done = FALSE)

\* C11 amended: as stated, except that full_refresh_done is false only as
\* long as no full refresh has completed successfully: neither sdap_sudo_init
\* (which clears it) nor the callback sets it.
C11_FetchedContext ==
    FetchedHostnames =>
        /\ FetchedContext
        /\ sudo_ctx.full_refresh_done = FullRefreshCompleted

C11_Witness ==
    /\ FetchedHostnames
    /\ sudo_ctx.hostnames = "h1"
    /\ ptask_calls[Len(ptask_calls)].ret = EOK
    /\ sudo_ctx.full_refresh_done = FALSE

\* the context holds host information: host names or addresses
HostIdentityPresent == sudo_ctx.hostnames # NULL \/ sudo_ctx.ip_addr # NULL

\* C12: in every state of a provider whose sdap_sudo_init returned EOK,
\* use_host_filter == true implies that the context holds host information.
C12_HostFilterHasIdentity ==
    init_call.ret = EOK => (sudo_ctx.use_host_filter => HostIdentityPresent)

\* the reply of a completed request is not the ENOENT case of a rules refresh
NotDeletedCase(r) ==
    ~ ( /\ be_req[r].type = BE_REQ_SUDO_RULES
        /\ be_req[r].recv.ret = EOK
        /\ be_req[r].recv.deleted )

\* C13: a completed request other than a rules refresh reporting (EOK,
\* deleted) is answered once with exactly the ret and dp_error its refresh
\* reported: a full refresh whatever the deleted flag, a rules refresh when it
\* failed or deleted is false.
C13_OutcomePassedThrough ==
    \A r \in ReqIds :
        (Completed(r) /\ NotDeletedCase(r)) =>
            /\ Replies(r) = 1
            /\ be_req[r].done[1].ret = be_req[r].recv.ret
            /\ be_req[r].done[1].dp_error = be_req[r].recv.dp_error
            /\ be_req[r].done[1].msg = strerror(be_req[r].recv.ret)

C13_Witness ==
    \E r, q \in ReqIds :
        /\ Completed(r)
        /\ be_req[r].type = BE_REQ_SUDO_FULL
        /\ be_req[r].recv.ret = EOK
        /\ be_req[r].recv.deleted
        /\ be_req[r].done[1].ret = EOK
        /\ Completed(q)
        /\ be_req[q].type = BE_REQ_SUDO_RULES
        /\ be_req[q].recv.ret = EIO
        /\ be_req[q].recv.deleted
        /\ be_req[q].done[1].ret = EIO

\* the host information fields of the context
HostFields(ctx) == <<ctx.use_host_filter, ctx.hostnames, ctx.ip_addr>>

\* C14 as stated: use_host_filter, hostnames and ip_addr are written by the
\* host information callback alone: as long as it has not run they are as the
\* options load left them, and no step but the callback's changes them.
C14_OnlyCallbackWritesHostFields ==
    (OptionsLoaded /\ hostinfo.req # "freed") =>
        HostFields(sudo_ctx) = HostFields(LoadedCtx(init_call.opts))

\* C14 amended: sdap_sudo_init sets use_host_filter from the options and
\* forces it to false when the host information request cannot be sent; once
\* sdap_sudo_init has returned, use_host_filter, hostnames and ip_addr are
\* written by the host information callback alone, which runs at most once.
\* sdap_sudo_handler leaves the context alone, and a step of sdap_sudo_reply
\* changes it by nothing but the side effect of the completed refresh.
C14_HostFieldsFrame ==
    /\ [](Cardinality(PtaskCallsFrom("sdap_sudo_get_hostinfo_done")) <= 1)
    /\ [](hostinfo.req = "freed" => ~ENABLED sdap_sudo_get_hostinfo_done)
    /\ [][ /\ (init_call.called /\ HostFields(sudo_ctx)' # HostFields(sudo_ctx))
               => (hostinfo.req = "pending" /\ hostinfo'.req # "none"
                   /\ hostinfo'.ret # "none")
           /\ \A r \in ReqIds :
                /\ (~Received(r) /\ Received(r)') => sudo_ctx' = sudo_ctx
                /\ (~Completed(r) /\ Completed(r)') =>
                      /\ sudo_ctx' = RefreshSideEffect(sudo_ctx, be_req[r].type,
                                                       be_req'[r].recv)
                      /\ HostFields(sudo_ctx)' = HostFields(sudo_ctx)
                      /\ sudo_ctx'.include_regexp = sudo_ctx.include_regexp
                      /\ sudo_ctx'.include_netgroups = sudo_ctx.include_netgroups
         ]_vars

C14_Witness ==
    /\ hostinfo.req = "freed"
    /\ HostFields(sudo_ctx) # HostFields(LoadedCtx(init_call.opts))
    /\ \E r \in ReqIds : Completed(r) /\ be_req[r].send_ctx.hostinfo_ret = "none"

\* the calls made on a request free it exactly once, as the last of them
FreedLast(calls) ==
    /\ calls # <<>>
    /\ \A i \in DOMAIN calls : (calls[i] = "talloc_zfree") <=> (i = Len(calls))

\* the calls of sdap_sudo_reply that are made on the tevent_req
OnRequest(calls) == SelectSeq(calls, LAMBDA c : c # "sdap_handler_done")

\* the *_refresh_recv function that matches a request type
RecvFunction(type) ==
    IF type = BE_REQ_SUDO_FULL THEN "sdap_sudo_full_refresh_recv"
    ELSE "sdap_sudo_rules_refresh_recv"

\* C15: the request of a completed refresh has had its result received and
\* has then been freed, exactly once and as the last call made on it, before
\* sdap_handler_done is called; a request that has not completed, or was
\* never created, has had no call made on it.  The host information callback
\* runs at most once, and receives and then frees its request, exactly once.
C15_HandlesReleasedOnce ==
    /\ \A r \in ReqIds :
         /\ Completed(r) =>
               /\ OnRequest(be_req[r].calls) =
                      << RecvFunction(be_req[r].type), "talloc_zfree" >>
               /\ FreedLast(OnRequest(be_req[r].calls))
               /\ Replies(r) = 1
               /\ be_req[r].done[1].req = "freed"
               /\ ~ENABLED sdap_sudo_reply(r)
         /\ ~Completed(r) => be_req[r].calls = <<>>
         /\ SendFailed(r) => be_req[r].done[1].req = NULL
    /\ hostinfo.req = "freed" =>
         /\ hostinfo.calls = << "sdap_sudo_get_hostinfo_recv", "talloc_zfree" >>
         /\ FreedLast(hostinfo.calls)
         /\ Cardinality(PtaskCallsFrom("sdap_sudo_get_hostinfo_done")) = 1
         /\ ~ENABLED sdap_sudo_get_hostinfo_done
    /\ hostinfo.req # "freed" =>
         /\ hostinfo.calls = <<>>
         /\ PtaskCallsFrom("sdap_sudo_get_hostinfo_done") = {}

C15_Witness ==
    /\ hostinfo.req = "freed"
    /\ \E r \in ReqIds : Completed(r) /\ be_req[r].done[1].req = "freed"

\* be_req r is in flight: its refresh was sent and has not completed
InFlight(r) == Dispatched(r) /\ ~Completed(r)

\* C16: requests in flight at the same time can each complete next, whatever
\* the order they were sent in; a completion changes no other request; and
\* every completed request has exactly one reply, the one sdap_sudo_reply
\* computes from its own type and its own refresh's result.
C16_ConcurrentRequestsIndependent ==
    /\ [](\A r \in ReqIds :
            /\ InFlight(r) => ENABLED sdap_sudo_reply(r)
            /\ Completed(r) =>
                 LET res == sdap_sudo_reply_result(be_req[r].type, be_req[r].recv)
                 IN be_req[r].done =
                      << Done(res.dp_error, res.ret, strerror(res.ret), "freed") >>)
    /\ [][\A r \in ReqIds :
            (be_req[r].done # be_req'[r].done) =>
                \A q \in ReqIds \ {r} : be_req'[q] = be_req[q]]_vars

\* a rules refresh sent second has completed, with ENOENT, while a full
\* refresh sent first is still in flight
C16_Witness ==
    \E r, q \in ReqIds :
        /\ r < q
        /\ InFlight(r)
        /\ be_req[r].type = BE_REQ_SUDO_FULL
        /\ Completed(q)
        /\ be_req[q].type = BE_REQ_SUDO_RULES
        /\ be_req[q].done[1].ret = ENOENT

\* where be_req r is between two steps of the event loop: not yet handed to
\* sdap_sudo_handler, answered by sdap_sudo_handler itself, sent and waiting
\* for its refresh, or answered by sdap_sudo_reply
Phase(r) ==
    IF ~Received(r) THEN "Idle"
    ELSE IF ~Dispatched(r) THEN "ShortCircuited"
    ELSE IF ~Completed(r) THEN "Dispatched"
    ELSE "Replied"

PhaseSteps ==
    { <<"Idle", "ShortCircuited">>, <<"Idle", "Dispatched">>,
      <<"Dispatched", "Replied">> }

\* C17 as stated: a request answered before sdap_sudo_handler returns, without
\* having been sent and completed, was answered by the offline check.
C17_OnlyOfflineShortCircuits ==
    \A r \in ReqIds :
        (Replies(r) >= 1 /\ ~Dispatched(r)) => be_req[r].was_offline

\* C17 amended: a request moves from received to either answered at once or
\* sent, and from sent to answered on completion, never backwards and never
\* twice; it is answered at once, without being sent and completed, at three
\* points: the offline check, the invalid type case and a failed send; the
\* offline check comes first, so nothing is sent for a request it answers.
C17_RequestPhases ==
    /\ [](\A r \in ReqIds :
            /\ Phase(r) = "Idle" => (Replies(r) = 0 /\ be_req[r].send = "none")
            /\ Phase(r) = "ShortCircuited" =>
                 /\ Replies(r) = 1
                 /\ \/ be_req[r].was_offline /\ be_req[r].send = "none"
                    \/ /\ ~be_req[r].was_offline
                       /\ be_req[r].type \notin {BE_REQ_SUDO_FULL, BE_REQ_SUDO_RULES}
                       /\ be_req[r].send = "none"
                    \/ /\ ~be_req[r].was_offline
                       /\ be_req[r].type \in {BE_REQ_SUDO_FULL, BE_REQ_SUDO_RULES}
                       /\ SendFailed(r)
            /\ Phase(r) = "Dispatched" =>
                 /\ Replies(r) = 0
                 /\ ~be_req[r].was_offline
                 /\ be_req[r].recv = NoRecv
            /\ Phase(r) = "Replied" =>
                 /\ Replies(r) = 1
                 /\ be_req[r].recv \in RecvValues)
    /\ [][\A r \in ReqIds :
            Phase(r)' # Phase(r) => <<Phase(r), Phase(r)'>> \in PhaseSteps]_vars

C17_Witness ==
    \E r, q \in ReqIds :
        /\ Phase(r) = "ShortCircuited"
        /\ ~be_req[r].was_offline
        /\ SendFailed(r)
        /\ Phase(q) = "Replied"

\* the last sdap_sudo_ptask_setup call returned an error
ArmFailed ==
    /\ ptask_calls # <<>>
    /\ ptask_calls[Len(ptask_calls)].ret # EOK

\* the context as the loaded options and the outcome of the host information
\* request determine it (full_refresh_done belongs to the refresh)
ContextFromOptionsAndHostinfo ==
    LET c == LoadedCtx(init_call.opts)
    IN IF hostinfo.req = NULL
       THEN [c EXCEPT !.use_host_filter = FALSE,
                      !.full_refresh_done = sudo_ctx.full_refresh_done]
       ELSE [c EXCEPT !.use_host_filter = IF hostinfo.ret = EOK THEN @ ELSE FALSE,
                      !.hostnames = hostinfo.info.hostnames,
                      !.ip_addr = hostinfo.info.ip_addr,
                      !.full_refresh_done = sudo_ctx.full_refresh_done]

\* C18: when sdap_sudo_ptask_setup fails, in sdap_sudo_init or in
\* sdap_sudo_get_hostinfo_done, sdap_sudo_init has still returned EOK, the
\* context is live and holds what the options and the host information
\* request determine, exactly as after a successful call; the handler still
\* accepts requests, and full and rules requests are sent and answered with
\* the outcome of their refresh.
C18_ArmFailureNotFatal ==
    /\ [](ArmFailed =>
            /\ init_call.ret = EOK
            /\ ops = "sdap_sudo_ops" /\ pvt_data = "sudo_ctx"
            /\ sudo_ctx = ContextFromOptionsAndHostinfo
            /\ \A r \in ReqIds :
                 /\ (Running /\ ~Received(r) /\ \A q \in ReqIds : q < r => Received(q))
                        => ENABLED sdap_sudo_handler(r)
                 /\ Received(r) => HandledNormally(r)
                 /\ InFlight(r) => ENABLED sdap_sudo_reply(r)
                 /\ Completed(r) =>
                      LET res == sdap_sudo_reply_result(be_req[r].type, be_req[r].recv)
                      IN /\ be_req[r].done[1].dp_error = res.dp_error
                         /\ be_req[r].done[1].ret = res.ret)
    /\ [][(ptask_calls' # ptask_calls /\ ArmFailed'
              /\ ptask_calls'[Len(ptask_calls')].from = "sdap_sudo_get_hostinfo_done") =>
             /\ UNCHANGED <<init_call, ops, pvt_data, be_req, offline, shutdown_done>>
             /\ sudo_ctx' = sdap_sudo_get_hostinfo_done_result(
                                sudo_ctx, hostinfo'.ret, hostinfo'.info, EOK).ctx]_vars

C18_Witness ==
    /\ ArmFailed
    /\ \E r, q \in ReqIds :
         /\ be_req[r].type = BE_REQ_SUDO_RULES /\ Completed(r) /\ Replies(r) = 1
         /\ be_req[q].type = BE_REQ_SUDO_FULL /\ Completed(q) /\ Replies(q) = 1
         /\ be_req[q].recv.ret = EOK

\* C19: sdap_sudo_shutdown calls sdap_handler_done once, with (DP_ERR_OK,
\* EOK, NULL), in the same step; the step changes nothing else: not the
\* context, the host information request, the periodic task or any be_req;
\* requests in flight at that time have no reply from it and their refresh
\* still completes through sdap_sudo_reply.
C19_ShutdownIsNoOp ==
    /\ [](shutdown_done # <<>> =>
            /\ shutdown_done = << Done(DP_ERR_OK, EOK, NULL, "none") >>
            /\ \A r \in ReqIds :
                 InFlight(r) => (Replies(r) = 0 /\ ENABLED sdap_sudo_reply(r)))
    /\ [][shutdown_done' # shutdown_done =>
             /\ shutdown_done' = Append(shutdown_done, Done(DP_ERR_OK, EOK, NULL, "none"))
             /\ UNCHANGED <<sudo_ctx, ops, pvt_data, init_call, hostinfo,
                            ptask_calls, offline, be_req>>]_vars

C19_Witness ==
    /\ shutdown_done # <<>>
    /\ hostinfo.req = "pending"
    /\ \E r, q \in ReqIds : InFlight(r) /\ Completed(q)

\* C20: whenever sdap_sudo_init has returned an error, *pvt_data does not
\* point to a context that has been freed.
C20_NoDanglingProviderState ==
    (init_call.called /\ init_call.ret # EOK) =>
        ~(pvt_data = "sudo_ctx" /\ sudo_ctx.mem = "freed")

====
